---------------------------- MODULE Spec2Model ----------------------------
(***************************************************************************)
(* Telemetry ingestion of the rocket payload dashboard.                    *)
(*                                                                         *)
(*   src/main.py         USB variant: update_data polls the receiver with  *)
(*                       two vendor control transfers, decodes the bytes   *)
(*                       into the global packet and feeds five windows.    *)
(*   src/plotly_site.py  serial variant: update_ reads one CSV line,       *)
(*                       updates location[0] and three windows.            *)
(*                                                                         *)
(* Python floats are modelled as exact rationals [num, den] in lowest      *)
(* terms (the quotients raw/10, raw/20, raw/1e6 of the decoder are         *)
(* distinct doubles for distinct raws, so equality is preserved).          *)
(* Callbacks run on the threads of the Flask server, one step of a         *)
(* callback per action; a step is one Python statement (two for            *)
(* w = w[-200:], which reads the list and then rebinds the name).          *)
(***************************************************************************)
EXTENDS Integers, Sequences, FiniteSets, TLC

-----------------------------------------------------------------------------
(* Numbers *)

Abs(n) == IF n < 0 THEN -n ELSE n

\* Euclid's algorithm.  The remainder is bound by a quantifier so that it is
\* computed once per step.
RECURSIVE GCD(_, _)
GCD(a, b) ==
    IF b = 0 THEN a ELSE CHOOSE g \in {GCD(b, r) : r \in {a % b}} : TRUE

\* The float n/d, d > 0, in lowest terms.
Rat(n, d) ==
    CHOOSE q \in {[num |-> n \div g, den |-> d \div g] : g \in {GCD(Abs(n), d)}} : TRUE

RatSub(r, k) == Rat(r.num - k * r.den, r.den)

Zero == Rat(0, 1)

-----------------------------------------------------------------------------
(* Bytes: int.from_bytes(bs, "little", signed=...) on a slice *)

\* Python's bs[lo:hi] on 0-based offsets: clamped to the sequence, never an error.
Slice(bs, lo, hi) ==
    LET h == IF hi < Len(bs) THEN hi ELSE Len(bs)
    IN  IF lo >= h THEN << >> ELSE SubSeq(bs, lo + 1, h)

\* from_bytes that takes the sign from every byte rather than the last
RECURSIVE from_bytes_EachSigned(_, _)
from_bytes_EachSigned(bs, signed) ==
    IF Len(bs) = 0 THEN 0
    ELSE (IF signed /\ bs[1] >= 128 THEN bs[1] - 256 ELSE bs[1])
            + (IF Len(bs) = 1 THEN 0 ELSE 256 * from_bytes_EachSigned(Tail(bs), signed))

RECURSIVE from_bytes(_, _)
from_bytes(bs, signed) ==
    IF Len(bs) = 0 THEN 0
    ELSE IF Len(bs) = 1
         THEN IF signed /\ bs[1] >= 128 THEN bs[1] - 256 ELSE bs[1]
         ELSE bs[1] + 256 * from_bytes(Tail(bs), signed)

\* int.to_bytes(v, n, "little") of the two's complement of v; no overflow check.
RECURSIVE to_bytes(_, _)
to_bytes(v, n) ==
    IF n = 0 THEN << >> ELSE <<v % 256>> \o to_bytes(v \div 256, n - 1)

-----------------------------------------------------------------------------
(* main.py: the packet *)

FrameLen == 29

\* The module-level packet before the first successful tick.
InitPacket ==
    [time |-> [hours |-> 0, minutes |-> 0, seconds |-> 0, microseconds |-> 0],
     latitude |-> Rat(40806862, 1000000),
     longitude |-> Rat(-96681679, 1000000),
     altitude |-> 0,
     temperature |-> Zero,
     pressure |-> Zero,
     acceleration |-> [x |-> Zero, y |-> Zero, z |-> Zero]]

\* packet_bytes[0], [1], [2] are indexed, not sliced: IndexError below 3 bytes.
DecodeRaises(packet_bytes) == Len(packet_bytes) < 3

\* The decoder with the temperature offset left out
DecodePacket_NoOffset(packet_bytes) ==
    [time |-> [hours |-> packet_bytes[1],
               minutes |-> packet_bytes[2],
               seconds |-> packet_bytes[3],
               microseconds |-> from_bytes(Slice(packet_bytes, 3, 7), FALSE)],
     latitude |-> Rat(from_bytes(Slice(packet_bytes, 7, 11), TRUE), 1000000),
     longitude |-> Rat(from_bytes(Slice(packet_bytes, 11, 15), TRUE), 1000000),
     altitude |-> from_bytes(Slice(packet_bytes, 15, 19), TRUE),
     temperature |-> Rat(from_bytes(Slice(packet_bytes, 19, 21), FALSE), 10),
     pressure |-> Rat(from_bytes(Slice(packet_bytes, 21, 23), FALSE), 10),
     acceleration |->
        [x |-> Rat(from_bytes(Slice(packet_bytes, 23, 25), TRUE), 20),
         y |-> Rat(from_bytes(Slice(packet_bytes, 25, 27), TRUE), 20),
         z |-> Rat(from_bytes(Slice(packet_bytes, 27, 29), TRUE), 20)]]

\* The dict update_data builds from packet_bytes (at least 3 bytes long).
DecodePacket(packet_bytes) ==
    [time |-> [hours |-> packet_bytes[1],
               minutes |-> packet_bytes[2],
               seconds |-> packet_bytes[3],
               microseconds |-> from_bytes(Slice(packet_bytes, 3, 7), FALSE)],
     latitude |-> Rat(from_bytes(Slice(packet_bytes, 7, 11), TRUE), 1000000),
     longitude |-> Rat(from_bytes(Slice(packet_bytes, 11, 15), TRUE), 1000000),
     altitude |-> from_bytes(Slice(packet_bytes, 15, 19), TRUE),
     temperature |-> RatSub(Rat(from_bytes(Slice(packet_bytes, 19, 21), FALSE), 10), 5),
     pressure |-> Rat(from_bytes(Slice(packet_bytes, 21, 23), FALSE), 10),
     acceleration |->
        [x |-> Rat(from_bytes(Slice(packet_bytes, 23, 25), TRUE), 20),
         y |-> Rat(from_bytes(Slice(packet_bytes, 25, 27), TRUE), 20),
         z |-> Rat(from_bytes(Slice(packet_bytes, 27, 29), TRUE), 20)]]

\* The raw integer behind a scaled field: r * scale, r = num/den with den | scale.
Unscale(r, scale) == r.num * (scale \div r.den)

\* The documented field layout written back as bytes (the inverse the data
\* model describes: each scale and offset undone, little-endian).
EncodePacket(p) ==
    <<p.time.hours, p.time.minutes, p.time.seconds>>
        \o to_bytes(p.time.microseconds, 4)
        \o to_bytes(Unscale(p.latitude, 1000000), 4)
        \o to_bytes(Unscale(p.longitude, 1000000), 4)
        \o to_bytes(p.altitude, 4)
        \o to_bytes(Unscale(p.temperature, 10) + 50, 2)
        \o to_bytes(Unscale(p.pressure, 10), 2)
        \o to_bytes(Unscale(p.acceleration.x, 20), 2)
        \o to_bytes(Unscale(p.acceleration.y, 20), 2)
        \o to_bytes(Unscale(p.acceleration.z, 20), 2)

-----------------------------------------------------------------------------
(* Frames the receiver can hand back *)

\* hours=1 minutes=2 seconds=3 micros=0 lat=40000000 lon=-96000000 altitude=500
\* temp_raw=150 pressure_raw=10000 ax=20 ay=-20 az=0
FrameA ==
    <<1, 2, 3, 0, 0, 0, 0, 0, 90, 98, 2, 0, 40, 71, 250, 244, 1, 0, 0,
      150, 0, 16, 39, 20, 0, 236, 255, 0, 0>>

\* hours=23 minutes=59 seconds=61 micros=999999 lat=-33500000 lon=151250000
\* altitude=-12 temp_raw=287 pressure_raw=9876 ax=-163 ay=7 az=1
FrameB ==
    <<23, 59, 61, 63, 66, 15, 0, 160, 212, 0, 254, 80, 228, 3, 9, 244, 255, 255, 255,
      31, 1, 148, 38, 93, 255, 7, 0, 1, 0>>

ByteVals == {0, 1, 127, 128, 255}

\* f with the bytes at 1-based positions i and j replaced.
Patch(f, i, a, j, b) == [k \in 1..Len(f) |-> IF k = i THEN a ELSE IF k = j THEN b ELSE f[k]]

\* Every frame that differs from FrameA or FrameB in at most two bytes, those
\* bytes drawn from ByteVals.  The top byte of the microseconds stays below 128
\* so that the unsigned 32-bit value fits TLC's integers.
DecodeFrames ==
    { f \in { Patch(base, i, a, j, b) :
                base \in {FrameA, FrameB}, i \in 1..FrameLen, j \in 1..FrameLen,
                a \in ByteVals, b \in ByteVals } : f[7] < 128 }

\* What the receiver answers in the polling model: two full frames, one cut
\* short inside the acceleration fields, one too short to index.
ShortFrame == SubSeq(FrameB, 1, 24)
TinyFrame == SubSeq(FrameA, 1, 2)
DeviceFrames == {FrameA, FrameB, ShortFrame, TinyFrame}

-----------------------------------------------------------------------------
(* plotly_site.py: the text line *)

Whitespace == {" ", "\n", "\r", "\t"}
Digits == {"0", "1", "2", "3", "4", "5", "6", "7", "8", "9"}
DigitVal(c) ==
    CASE c = "0" -> 0 [] c = "1" -> 1 [] c = "2" -> 2 [] c = "3" -> 3 [] c = "4" -> 4
      [] c = "5" -> 5 [] c = "6" -> 6 [] c = "7" -> 7 [] c = "8" -> 8 [] c = "9" -> 9

\* bytes.strip(): whitespace removed at both ends.
RECURSIVE strip(_)
strip(s) ==
    IF Len(s) = 0 THEN s
    ELSE IF s[1] \in Whitespace THEN strip(Tail(s))
    ELSE IF s[Len(s)] \in Whitespace THEN strip(SubSeq(s, 1, Len(s) - 1))
    ELSE s

\* bytes.split(b','): the fields between the commas, empty ones included.
split(s) ==
    LET commas == {i \in 1..Len(s) : s[i] = ","}
        \* the position of the k-th comma; 0 before the first, Len(s) + 1 after the last
        at(k) == IF k = 0 THEN 0
                 ELSE IF k > Cardinality(commas) THEN Len(s) + 1
                 ELSE CHOOSE p \in commas : Cardinality({q \in commas : q < p}) = k - 1
    IN  [k \in 1..(Cardinality(commas) + 1) |-> SubSeq(s, at(k - 1) + 1, at(k) - 1)]

\* What float() and indexing leave behind when they raise.
Err == [raised |-> TRUE]

\* No value (yet).
None == [none |-> TRUE]

RECURSIVE Pow10(_)
Pow10(n) == IF n = 0 THEN 1 ELSE 10 * Pow10(n - 1)

RECURSIVE DigitsValue(_)
DigitsValue(ds) ==
    IF Len(ds) = 0 THEN 0
    ELSE 10 * DigitsValue(SubSeq(ds, 1, Len(ds) - 1)) + DigitVal(ds[Len(ds)])

\* float(field) for fields over digits, sign, point and other characters:
\* [sign] digits [. digits] with at least one digit, surrounding whitespace
\* ignored; anything else is a ValueError (Err).  Exponents, inf, nan and
\* underscores are not in the alphabet of the modelled lines.
ParseFloat(field) ==
    LET t == strip(field)
        signed == Len(t) > 0 /\ t[1] \in {"-", "+"}
        m == IF signed THEN Tail(t) ELSE t
        points == {i \in 1..Len(m) : m[i] = "."}
        ds == SelectSeq(m, LAMBDA c : c # ".")
        frac == IF points = {} THEN 0
                ELSE Len(m) - (CHOOSE i \in points : TRUE)
    IN  IF Len(ds) = 0 \/ Cardinality(points) > 1
           \/ \E i \in 1..Len(ds) : ds[i] \notin Digits
        THEN Err
        ELSE Rat((IF signed /\ t[1] = "-" THEN -1 ELSE 1) * DigitsValue(ds), Pow10(frac))

RECURSIVE Join(_)
Join(fields) ==
    IF Len(fields) = 0 THEN << >>
    ELSE IF Len(fields) = 1 THEN fields[1]
    ELSE fields[1] \o <<",">> \o Join(Tail(fields))

\* "0,40.1,-96.2,ignored,288.0,1013.0,0.1,-0.2,0.3"
FieldsA ==
    << <<"0">>, <<"4", "0", ".", "1">>, <<"-", "9", "6", ".", "2">>,
       <<"i", "g", "n", "o", "r", "e", "d">>, <<"2", "8", "8", ".", "0">>,
       <<"1", "0", "1", "3", ".", "0">>, <<"0", ".", "1">>, <<"-", "0", ".", "2">>,
       <<"0", ".", "3">> >>

\* "1,41,-97.5,t,290,1000,1.5,2,-3,9": ten fields
FieldsB ==
    << <<"1">>, <<"4", "1">>, <<"-", "9", "7", ".", "5">>, <<"t">>, <<"2", "9", "0">>,
       <<"1", "0", "0", "0">>, <<"1", ".", "5">>, <<"2">>, <<"-", "3">>, <<"9">> >>

Garbled == <<"x">>
WithField(fields, i, f) == [k \in 1..Len(fields) |-> IF k = i THEN f ELSE fields[k]]
Line(fields) == Join(fields) \o <<"\n">>

\* What readline() returns in the polling model: well-formed lines, lines cut
\* after 8 and 7 fields, lines with one garbled field, a bare newline, and
\* nothing at all (the timeout).
SerialLines ==
    { Line(FieldsA), Line(FieldsB),
      Line(SubSeq(FieldsB, 1, 8)), Line(SubSeq(FieldsA, 1, 7)),
      Line(WithField(FieldsA, 2, Garbled)), Line(WithField(FieldsB, 3, Garbled)),
      Line(WithField(FieldsA, 8, Garbled)),
      <<"\n">>, << >> }

-----------------------------------------------------------------------------
(* State *)

\* Window capacity: 200 in both programs ([0.0] * 200, [-200:]), scaled down.
WindowLen == 2

\* Poll ticks per run: enough to fill a window and evict from it.
MaxTicks == WindowLen + 1

Threads == {1, 2}

VARIABLES
    variant,        \* which program runs: "usb" (main.py) or "serial" (plotly_site.py)
    usb_device,     \* main.py: what usb.core.find returned: "Device", "None", or
                    \* "unset" before the lookup; plotly_site.py has no such name
    packet,         \* main.py: the global packet
    pt_val_graph,   \* main.py: the 'press' and 'temp' windows
    accel,          \* both programs: the 'x', 'y', 'z' windows
    location,       \* plotly_site.py: location[0]
    pc,             \* per server thread: where its polling callback stands
    lv,             \* per server thread: the callback's local variables
    outcome,        \* per server thread: how the callback ended: "ok", "no_update"
                    \* (return dash.no_update), "none" (bare return), or the
                    \* exception that left the callback
    view,           \* what the last consumer callback returned
    left,           \* timer fires still to come
    fed,            \* history: per window, every value appended so far
    pre,            \* history: per thread, the store when its tick began
    tries,          \* history: per thread, acquisition attempts of its tick
    fails,          \* history: ticks that ended without success since the last success
    base,           \* history: the store before the first of those ticks
    dec_in,         \* decoder study: the frame
    dec_out         \* decoder study: what the decoder made of it

store == <<packet, pt_val_graph, accel, location>>
threadv == <<pc, lv, outcome>>
history == <<fed, pre, tries, fails, base>>
study == <<dec_in, dec_out>>
vars == <<variant, usb_device, store, threadv, view, left, history, study>>

PtWindows == {"press", "temp"}
AccelWindows == {"x", "y", "z"}

ZeroWindow == [i \in 1..WindowLen |-> Zero]

\* w[:200], the slice from the wrong end
LastN_Head(w) == IF Len(w) <= WindowLen THEN w ELSE SubSeq(w, 1, WindowLen)

\* w[-200:]
LastN(w) == IF Len(w) <= WindowLen THEN w ELSE SubSeq(w, Len(w) - WindowLen + 1, Len(w))

Window(w) == IF w \in PtWindows THEN pt_val_graph[w] ELSE accel[w]

Store == [packet |-> packet, pt_val_graph |-> pt_val_graph, accel |-> accel,
          location |-> location]

\* The current sample of the running program.
Sample == IF variant = "usb" THEN packet ELSE location

\* io is the link traffic of the invocation so far, in the order issued.
NoLocals == [buf |-> << >>, fields |-> << >>, x |-> Zero, y |-> Zero, z |-> Zero,
             tmp |-> << >>, ip |-> 0, io |-> << >>]
NoView == [cb |-> "none"]

InitStore ==
    /\ packet = InitPacket
    /\ pt_val_graph = [w \in PtWindows |-> ZeroWindow]
    /\ accel = [w \in AccelWindows |-> ZeroWindow]
    /\ location = [lat |-> Zero, lon |-> Zero]

\* usb_device once the module-level lookup has succeeded.
Attached == IF variant = "usb" THEN "Device" ELSE "n/a"

InitCommon ==
    /\ variant \in {"usb", "serial"}
    /\ InitStore
    /\ lv = [t \in Threads |-> NoLocals]
    /\ outcome = [t \in Threads |-> "none"]
    /\ view = NoView
    /\ fed = [w \in PtWindows \cup AccelWindows |-> << >>]
    /\ pre = [t \in Threads |-> None]
    /\ tries = [t \in Threads |-> 0]
    /\ fails = 0
    /\ base = None
    /\ dec_in = << >>
    /\ dec_out = None

\* One tick at a time: the browser's data-interval is served by thread 1.
Init ==
    /\ InitCommon
    /\ usb_device = Attached
    /\ left = MaxTicks
    /\ pc = [t \in Threads |-> IF t = 1 THEN "idle" ELSE "off"]

-----------------------------------------------------------------------------
(* The polling callback: update_data (main.py), update_ (plotly_site.py) *)

Goto(t, p) == pc' = [pc EXCEPT ![t] = p]
Finish(t, how) == /\ pc' = [pc EXCEPT ![t] = "ret"]
                  /\ outcome' = [outcome EXCEPT ![t] = how]

\* data-interval fires and the server dispatches the callback.
TimerFire(t) ==
    /\ pc[t] = "idle"
    /\ left > 0
    /\ left' = left - 1
    /\ Goto(t, IF variant = "usb" THEN "arm" ELSE "reset")
    /\ outcome' = [outcome EXCEPT ![t] = "none"]
    /\ pre' = [pre EXCEPT ![t] = Store]
    /\ tries' = [tries EXCEPT ![t] = 0]
    /\ UNCHANGED <<variant, usb_device, store, lv, view, fed, fails, base, study>>

OUT_VENDOR_INTERFACE == 0 * 128 + 2 * 32 + 1
IN_VENDOR_INTERFACE == 1 * 128 + 2 * 32 + 1

\* The calls on the link, as the io of an invocation records them.
\* ctrl_transfer(bmRequestType, bRequest, wValue, wIndex[, data_or_wLength])
ArmTransfer == [op |-> "ctrl_transfer", args |-> <<OUT_VENDOR_INTERFACE, 100, 1, 0>>]
ReadTransfer == [op |-> "ctrl_transfer", args |-> <<IN_VENDOR_INTERFACE, 200, 1, 0, 32>>]
\* sleep(0.1)
Sleep == [op |-> "sleep", args |-> << >>]
ResetInput == [op |-> "reset_input_buffer", args |-> << >>]
Readline == [op |-> "readline", args |-> << >>]

\* The call is issued: it is on the wire whether or not it then raises.
Issue(t, calls) == lv' = [lv EXCEPT ![t].io = @ \o calls]

\* The exchange tried again at once when the arm transfer fails
UsbArm_Retry(t) ==
    /\ pc[t] = "arm"
    /\ tries' = [tries EXCEPT ![t] = @ + 1]
    /\ \/ Goto(t, "read") /\ Issue(t, <<ArmTransfer, Sleep>>) /\ UNCHANGED outcome
       \/ /\ Issue(t, <<ArmTransfer>>)
          /\ IF tries[t] = 0 THEN UNCHANGED <<pc, outcome>> ELSE Finish(t, "no_update")
    /\ UNCHANGED <<variant, usb_device, store, view, left, fed, pre, fails, base, study>>

\* The read issued although the arm transfer raised
UsbArm_Swallow(t) ==
    /\ pc[t] = "arm"
    /\ tries' = [tries EXCEPT ![t] = @ + 1]
    /\ \/ Goto(t, "read") /\ Issue(t, <<ArmTransfer, Sleep>>) /\ UNCHANGED outcome
       \/ Goto(t, "read") /\ Issue(t, <<ArmTransfer>>) /\ UNCHANGED outcome
    /\ UNCHANGED <<variant, usb_device, store, view, left, fed, pre, fails, base, study>>

\* usb_device.ctrl_transfer(OUT_VENDOR_INTERFACE, 100, 1, 0); sleep(0.1)
\* Either both run, or the transfer raises and the except clause returns.
UsbArm(t) ==
    /\ pc[t] = "arm"
    /\ tries' = [tries EXCEPT ![t] = @ + 1]
    /\ \/ Goto(t, "read") /\ Issue(t, <<ArmTransfer, Sleep>>) /\ UNCHANGED outcome
       \/ Finish(t, "no_update") /\ Issue(t, <<ArmTransfer>>)
    /\ UNCHANGED <<variant, usb_device, store, view, left, fed, pre, fails, base, study>>

\* packet_bytes = usb_device.ctrl_transfer(IN_VENDOR_INTERFACE, 200, 1, 0, 0x20)
UsbRead(t) ==
    /\ pc[t] = "read"
    /\ \/ \E f \in DeviceFrames :
            /\ lv' = [lv EXCEPT ![t].buf = f, ![t].io = @ \o <<ReadTransfer>>]
            /\ Goto(t, "decode")
            /\ UNCHANGED outcome
       \/ Finish(t, "no_update") /\ Issue(t, <<ReadTransfer>>)
    /\ UNCHANGED <<variant, usb_device, store, view, left, history, study>>

\* global packet; packet = {...}
UsbDecode(t) ==
    /\ pc[t] = "decode"
    /\ IF DecodeRaises(lv[t].buf)
       THEN Finish(t, "IndexError") /\ UNCHANGED <<packet, lv>>
       ELSE /\ packet' = DecodePacket(lv[t].buf)
            /\ lv' = [lv EXCEPT ![t].ip = 1]
            /\ Goto(t, "store")
            /\ UNCHANGED outcome
    /\ UNCHANGED <<variant, usb_device, pt_val_graph, accel, location, view, left, history, study>>

\* The statements that feed the windows, in program order.
UsbStore ==
    << <<"append", "press">>, <<"append", "temp">>,
       <<"slice", "press">>, <<"assign", "press">>,
       <<"slice", "temp">>, <<"assign", "temp">>,
       <<"append", "x">>, <<"append", "y">>, <<"append", "z">>,
       <<"slice", "x">>, <<"assign", "x">>,
       <<"slice", "y">>, <<"assign", "y">>,
       <<"slice", "z">>, <<"assign", "z">> >>

SerialStore ==
    << <<"append", "x">>, <<"append", "y">>, <<"append", "z">>,
       <<"slice", "x">>, <<"assign", "x">>,
       <<"slice", "y">>, <<"assign", "y">>,
       <<"slice", "z">>, <<"assign", "z">> >>

StoreProgram == IF variant = "usb" THEN UsbStore ELSE SerialStore

\* The statement thread t is about to run.
Stmt(t) == StoreProgram[lv[t].ip]

\* After the last statement the callback returns its html.
Advance(t) ==
    IF lv[t].ip = Len(StoreProgram) THEN "span" ELSE "store"

\* The value a statement appends: main.py reads the global packet, plotly_site.py
\* its locals x, y, z.
Appended(t, w) ==
    IF variant = "usb"
    THEN CASE w = "press" -> packet.pressure
           [] w = "temp" -> packet.temperature
           [] OTHER -> packet.acceleration[w]
    ELSE lv[t][w]

SetWindow(w, val) ==
    IF w \in PtWindows
    THEN pt_val_graph' = [pt_val_graph EXCEPT ![w] = val] /\ UNCHANGED accel
    ELSE accel' = [accel EXCEPT ![w] = val] /\ UNCHANGED pt_val_graph

\* <window>.append(<value>)
StoreAppend(t) ==
    /\ pc[t] = "store"
    /\ Stmt(t)[1] = "append"
    /\ LET w == Stmt(t)[2]
       IN  /\ SetWindow(w, Append(Window(w), Appended(t, w)))
           /\ fed' = [fed EXCEPT ![w] = Append(@, Appended(t, w))]
    /\ lv' = [lv EXCEPT ![t].ip = @ + 1]
    /\ Goto(t, Advance(t))
    /\ UNCHANGED <<variant, usb_device, packet, location, outcome, view, left, pre, tries, fails,
                   base, study>>

\* <window>[-200:], the right-hand side of the truncation
StoreSlice(t) ==
    /\ pc[t] = "store"
    /\ Stmt(t)[1] = "slice"
    /\ lv' = [lv EXCEPT ![t].tmp = LastN(Window(Stmt(t)[2])), ![t].ip = @ + 1]
    /\ Goto(t, Advance(t))
    /\ UNCHANGED <<variant, usb_device, store, outcome, view, left, history, study>>

\* <window> = ..., the rebinding of the truncation
StoreAssign(t) ==
    /\ pc[t] = "store"
    /\ Stmt(t)[1] = "assign"
    /\ SetWindow(Stmt(t)[2], lv[t].tmp)
    /\ lv' = [lv EXCEPT ![t].tmp = << >>, ![t].ip = @ + 1]
    /\ Goto(t, Advance(t))
    /\ UNCHANGED <<variant, usb_device, packet, location, outcome, view, left, history, study>>

\* return html.Span(...) / return [html.Span(...), ...]
ReturnSpan(t) ==
    /\ pc[t] = "span"
    /\ Finish(t, "ok")
    /\ UNCHANGED <<variant, usb_device, store, lv, view, left, history, study>>

\* ser.reset_input_buffer(), outside the try
SerialReset(t) ==
    /\ pc[t] = "reset"
    /\ Issue(t, <<ResetInput>>)
    /\ \/ Goto(t, "readline") /\ UNCHANGED outcome
       \/ Finish(t, "SerialException")
    /\ UNCHANGED <<variant, usb_device, store, view, left, history, study>>

\* line = ser.readline().strip()
SerialReadline(t) ==
    /\ pc[t] = "readline"
    /\ tries' = [tries EXCEPT ![t] = @ + 1]
    /\ \/ \E raw \in SerialLines :
            /\ lv' = [lv EXCEPT ![t].buf = strip(raw), ![t].io = @ \o <<Readline>>]
            /\ Goto(t, "frame")
            /\ UNCHANGED outcome
       \/ Finish(t, "none") /\ Issue(t, <<Readline>>)
    /\ UNCHANGED <<variant, usb_device, store, view, left, fed, pre, fails, base, study>>

\* line == "\n" or line == b'': a bytes object never equals a str.
EmptyLine(line) == line = << >>

MinFields == 8

\* len(line_as_list) < 8
TooFewFields(line_as_list) == Len(line_as_list) < MinFields

\* The two early returns before the parse, and line_as_list = line.split(b',')
SerialFrame(t) ==
    /\ pc[t] = "frame"
    /\ IF EmptyLine(lv[t].buf) \/ TooFewFields(split(lv[t].buf))
       THEN Finish(t, "none") /\ UNCHANGED lv
       ELSE /\ lv' = [lv EXCEPT ![t].fields = split(lv[t].buf)]
            /\ Goto(t, "lat")
            /\ UNCHANGED outcome
    /\ UNCHANGED <<variant, usb_device, store, view, left, history, study>>

\* float(line_as_list[i]) for the 0-based index i: IndexError or ValueError is Err.
FieldFloat(line_as_list, i) ==
    IF i + 1 > Len(line_as_list) THEN Err ELSE ParseFloat(line_as_list[i + 1])

\* location[0]['lat'] = float(line_as_list[1])
SerialLat(t) ==
    /\ pc[t] = "lat"
    /\ LET v == FieldFloat(lv[t].fields, 1)
       IN  IF v = Err
           THEN Finish(t, "none") /\ UNCHANGED location
           ELSE /\ location' = [location EXCEPT !.lat = v]
                /\ Goto(t, "lon")
                /\ UNCHANGED outcome
    /\ UNCHANGED <<variant, usb_device, packet, pt_val_graph, accel, lv, view, left, history, study>>

\* location[0]['lon'] = float(line_as_list[2])
SerialLon(t) ==
    /\ pc[t] = "lon"
    /\ LET v == FieldFloat(lv[t].fields, 2)
       IN  IF v = Err
           THEN Finish(t, "none") /\ UNCHANGED location
           ELSE /\ location' = [location EXCEPT !.lon = v]
                /\ Goto(t, "xyz")
                /\ UNCHANGED outcome
    /\ UNCHANGED <<variant, usb_device, packet, pt_val_graph, accel, lv, view, left, history, study>>

\* x = float(line_as_list[6]); y = float(line_as_list[7]); z = float(line_as_list[8])
SerialXyz(t) ==
    /\ pc[t] = "xyz"
    /\ LET x == FieldFloat(lv[t].fields, 6)
           y == FieldFloat(lv[t].fields, 7)
           z == FieldFloat(lv[t].fields, 8)
       IN  IF Err \in {x, y, z}
           THEN Finish(t, "none") /\ UNCHANGED lv
           ELSE /\ lv' = [lv EXCEPT ![t].x = x, ![t].y = y, ![t].z = z, ![t].ip = 1]
                /\ Goto(t, "store")
                /\ UNCHANGED outcome
    /\ UNCHANGED <<variant, usb_device, store, view, left, history, study>>

\* The callback has returned (or raised into the server, which answers the
\* request with an error): the thread is free for the next timer fire.
Return(t) ==
    /\ pc[t] = "ret"
    /\ Goto(t, "idle")
    /\ lv' = [lv EXCEPT ![t] = NoLocals]
    /\ pre' = [pre EXCEPT ![t] = None]
    /\ IF outcome[t] = "ok"
       THEN fails' = 0 /\ base' = None
       ELSE /\ fails' = fails + 1
            /\ base' = IF fails = 0 THEN pre[t] ELSE base
    /\ UNCHANGED <<variant, usb_device, store, outcome, view, left, fed, tries, study>>

-----------------------------------------------------------------------------
(* The consumer callbacks.  Each is one step: it reads the globals it renders
   and returns; view keeps the values it read. *)

Observe(cb, seen) ==
    /\ view' = [cb |-> cb, seen |-> seen]
    /\ UNCHANGED <<variant, usb_device, store, threadv, left, history, study>>

\* main.py
update_map ==
    variant = "usb" /\ Observe("update_map", <<packet.latitude, packet.longitude>>)

update_lat_lon_text ==
    variant = "usb" /\ Observe("update_lat_lon_text", <<packet.latitude, packet.longitude>>)

update_accel_text ==
    variant = "usb" /\ Observe("update_accel_text", packet.acceleration)

\* update_accel trimming the windows it renders
update_accel_Trim ==
    /\ variant = "usb"
    /\ view' = [cb |-> "update_accel", seen |-> [w \in AccelWindows |-> LastN(accel[w])]]
    /\ accel' = [w \in AccelWindows |-> LastN(accel[w])]
    /\ UNCHANGED <<variant, usb_device, packet, pt_val_graph, location, threadv, left,
                   history, study>>

update_accel ==
    variant = "usb" /\ Observe("update_accel", accel)

update_pt_text ==
    variant = "usb" /\ Observe("update_pt_text", <<packet.pressure, packet.temperature>>)

update_pressure ==
    variant = "usb" /\ Observe("update_pressure", pt_val_graph.press)

update_temperature ==
    variant = "usb" /\ Observe("update_temperature", pt_val_graph.temp)

\* plotly_site.py
serial_update_map ==
    variant = "serial" /\ Observe("update_map", location)

serial_update_lat_lon_text ==
    variant = "serial" /\ Observe("update_lat_lon_text", location)

serial_update_data ==
    variant = "serial" /\ Observe("update_data", accel)

-----------------------------------------------------------------------------
(* Specifications *)

\* The steps of a callback that has been dispatched.
Run(t) ==
    \/ UsbArm(t)
    \/ UsbRead(t)
    \/ UsbDecode(t)
    \/ SerialReset(t)
    \/ SerialReadline(t)
    \/ SerialFrame(t)
    \/ SerialLat(t)
    \/ SerialLon(t)
    \/ SerialXyz(t)
    \/ StoreAppend(t)
    \/ StoreSlice(t)
    \/ StoreAssign(t)
    \/ ReturnSpan(t)
    \/ Return(t)

Consume ==
    \/ update_map
    \/ update_lat_lon_text
    \/ update_accel_text
    \/ update_accel
    \/ update_pt_text
    \/ update_pressure
    \/ update_temperature
    \/ serial_update_map
    \/ serial_update_lat_lon_text
    \/ serial_update_data

Poll(t) == TimerFire(t) \/ Run(t)

Next == (\E t \in Threads : Poll(t)) \/ Consume

\* Either program, its poll ticks one after another, consumers at any time.
Spec == Init /\ [][Next]_vars

\* The module body up to app.run, with the check of the lookup left out
Startup_NoCheck ==
    /\ pc[1] = "boot"
    /\ IF variant = "usb"
       THEN \E found \in {"Device", "None"} :
               /\ usb_device' = found
               /\ Goto(1, "idle") /\ UNCHANGED outcome
       ELSE /\ usb_device' = Attached
            /\ \/ Goto(1, "idle") /\ UNCHANGED outcome
               \/ /\ pc' = [pc EXCEPT ![1] = "halted"]
                  /\ outcome' = [outcome EXCEPT ![1] = "SerialException"]
    /\ UNCHANGED <<variant, store, lv, view, left, history, study>>

\* The module body up to app.run.  main.py: usb.core.find returns the device
\* or None; on None the module raises ValueError, and set_configuration can
\* raise as well.  plotly_site.py: ser.open() succeeds or raises.  An exception
\* at module level ends the interpreter before the server is started.
Startup ==
    /\ pc[1] = "boot"
    /\ IF variant = "usb"
       THEN \E found \in {"Device", "None"} :
               /\ usb_device' = found
               /\ IF found = "None"
                  THEN /\ pc' = [pc EXCEPT ![1] = "halted"]
                       /\ outcome' = [outcome EXCEPT ![1] = "ValueError"]
                  ELSE \/ Goto(1, "idle") /\ UNCHANGED outcome
                       \/ /\ pc' = [pc EXCEPT ![1] = "halted"]
                          /\ outcome' = [outcome EXCEPT ![1] = "USBError"]
       ELSE /\ usb_device' = Attached
            /\ \/ Goto(1, "idle") /\ UNCHANGED outcome
               \/ /\ pc' = [pc EXCEPT ![1] = "halted"]
                  /\ outcome' = [outcome EXCEPT ![1] = "SerialException"]
    /\ UNCHANGED <<variant, store, lv, view, left, history, study>>

\* app.run has been reached: the server dispatches callbacks.
Serving == pc[1] \notin {"boot", "halted"}

InitBoot ==
    /\ InitCommon
    /\ usb_device = "unset"
    /\ left = MaxTicks
    /\ pc = [t \in Threads |-> IF t = 1 THEN "boot" ELSE "off"]

NextBoot == Startup \/ (Serving /\ Next)

\* Either program from the start of the interpreter.
SpecBoot == InitBoot /\ [][NextBoot]_vars

\* Two requests of data-interval can be in the server together (a second
\* browser, or a fire while the last request is still being served): each gets
\* a thread of its own.  One fire for each thread.
InitTwo ==
    /\ InitCommon
    /\ usb_device = Attached
    /\ left = Cardinality(Threads)
    /\ pc = [t \in Threads |-> "idle"]

NextTwo == \E t \in Threads : Poll(t)

\* Either program with its polling callback on both threads.
SpecTwo == InitTwo /\ [][NextTwo]_vars

\* The binary decoder alone, on every frame of DecodeFrames.
ApplyDecode ==
    /\ dec_out = None
    /\ dec_out' = IF DecodeRaises(dec_in) THEN Err ELSE DecodePacket(dec_in)
    /\ UNCHANGED <<variant, usb_device, store, threadv, view, left, history, dec_in>>

InitDecode ==
    /\ variant = "usb"
    /\ usb_device = "Device"
    /\ InitStore
    /\ pc = [t \in Threads |-> "off"]
    /\ lv = [t \in Threads |-> NoLocals]
    /\ outcome = [t \in Threads |-> "none"]
    /\ view = NoView
    /\ left = 0
    /\ fed = [w \in PtWindows \cup AccelWindows |-> << >>]
    /\ pre = [t \in Threads |-> None]
    /\ tries = [t \in Threads |-> 0]
    /\ fails = 0
    /\ base = None
    /\ dec_in \in DecodeFrames
    /\ dec_out = None

SpecDecode == InitDecode /\ [][ApplyDecode]_vars

-----------------------------------------------------------------------------
(* Claims *)

Quiet == \A t \in Threads : pc[t] \in {"idle", "off"}

SampleOf(st) == IF variant = "usb" THEN st.packet ELSE st.location

\* C1: after M >= 1 consecutive poll ticks that ended without success, the
\* current sample (packet / location[0]) is the one held before the first of them.
C1_FailuresKeepSample ==
    (Quiet /\ fails >= 1) => Sample = SampleOf(base)

\* C2: a tick of update_data whose inbound transfer returned fewer than 29
\* bytes leaves packet and all five windows as they were when it began.
C2_ShortFrameRejected ==
    \A t \in Threads :
        (variant = "usb" /\ pc[t] = "ret" /\ outcome[t] # "no_update"
            /\ Len(lv[t].buf) < FrameLen)
        => (packet = pre[t].packet /\ pt_val_graph = pre[t].pt_val_graph
            /\ accel = pre[t].accel)

\* C3: a tick of update_ whose line has fewer than 9 comma-separated fields
\* leaves location[0] and the three acceleration windows as they were.
C3_FewFieldsRejected ==
    \A t \in Threads :
        (variant = "serial" /\ pc[t] = "ret" /\ outcome[t] # "SerialException"
            /\ Len(split(lv[t].buf)) < 9)
        => (location = pre[t].location /\ accel = pre[t].accel)

\* C4: a tick of update_ that ends on a parse failure (bare return) has changed
\* none of lat, lon and the acceleration windows.
C4_NoPartialUpdate ==
    \A t \in Threads :
        (variant = "serial" /\ pc[t] = "ret" /\ outcome[t] = "none")
        => (location = pre[t].location /\ accel = pre[t].accel)

\* C5: no consumer sees some acceleration windows appended to and others not:
\* whatever update_accel renders, its three series have the window's length.
C5_NoTornRead ==
    (variant = "usb" /\ view.cb = "update_accel")
    => \A w \in AccelWindows : Len(view.seen[w]) = WindowLen

\* C6: with the ticks run one after another, each window holds the last
\* WindowLen entries of its initial zeros followed by everything appended to it,
\* oldest first; in particular after WindowLen + k appends (k > 0) it holds
\* exactly the last WindowLen appended values in arrival order.
C6_WindowIsLastN ==
    Quiet =>
        \A w \in PtWindows \cup AccelWindows :
            LET all == ZeroWindow \o fed[w]
            IN  Window(w) = [i \in 1..WindowLen |-> all[Len(all) - WindowLen + i]]

\* A window has been fed more values than it holds, and they were not all alike.
C6_Witness ==
    /\ Quiet
    /\ variant = "usb"
    /\ Len(fed["press"]) > WindowLen
    /\ fed["press"][1] # fed["press"][Len(fed["press"])]
    /\ pt_val_graph["press"][1] # pt_val_graph["press"][WindowLen]

\* C7: no failure of an acquisition step leaves the polling callback as an
\* exception.
C7_LinkNeverThrows ==
    \A t \in Threads : outcome[t] # "SerialException"

\* How far a callback is from its return: the statements still ahead of it.
Stage(p) ==
    CASE p \in {"arm", "reset"} -> 9
      [] p \in {"read", "readline"} -> 8
      [] p \in {"decode", "frame"} -> 7
      [] p = "lat" -> 6
      [] p = "lon" -> 5
      [] p = "xyz" -> 4
      [] p = "store" -> 3
      [] p = "span" -> 2
      [] p = "ret" -> 1
      [] OTHER -> 0
Rank(t) == 100 * Stage(pc[t]) + (IF pc[t] = "store" THEN Len(StoreProgram) - lv[t].ip ELSE 0)

\* C8: a failed tick is not retried and not fatal: a tick makes at most one
\* acquisition attempt; a dispatched tick can always take its next step and
\* every step brings it nearer to idle, whatever fails, so it comes back to
\* idle; once idle the timer can fire again, and the fire starts a new
\* acquisition; and a tick that succeeds, also after failed ones, has replaced
\* the sample by the one it decoded.
C8_FailureNotFatal ==
    /\ [](\A t \in Threads : tries[t] <= 1)
    /\ [](\A t \in Threads : (pc[t] \notin {"idle", "off"}) => ENABLED Run(t))
    /\ [][\A t \in Threads :
            (pc[t] \notin {"idle", "off"} /\ <<pc[t], lv[t], outcome[t], tries[t]>>' # <<pc[t], lv[t], outcome[t], tries[t]>>)
            => Rank(t)' < Rank(t)]_vars
    /\ [](\A t \in Threads : (pc[t] = "idle" /\ left > 0) => ENABLED TimerFire(t))
    /\ [][\A t \in Threads :
            (pc[t] = "idle" /\ pc'[t] # "idle")
            => (pc'[t] \in {"arm", "reset"} /\ tries'[t] = 0)]_vars
    /\ [](\A t \in Threads :
            (pc[t] = "ret" /\ outcome[t] = "ok") =>
                IF variant = "usb"
                THEN packet = DecodePacket(lv[t].buf)
                ELSE location = [lat |-> FieldFloat(lv[t].fields, 1),
                                 lon |-> FieldFloat(lv[t].fields, 2)])

\* A tick has succeeded right after two failed ones and changed the sample.
C8_Witness ==
    \E t \in Threads :
        /\ pc[t] = "ret" /\ outcome[t] = "ok"
        /\ fails >= 2
        /\ Sample # SampleOf(pre[t])

\* The little-endian value of bytes k+1 .. k+n (1-based) of f, n <= 4, written out.
U16(f, k) == f[k + 1] + 256 * f[k + 2]
S16(f, k) == U16(f, k) - (IF f[k + 2] >= 128 THEN 65536 ELSE 0)
U32(f, k) == U16(f, k) + 65536 * U16(f, k + 2)
S32(f, k) == U16(f, k) + 65536 * S16(f, k + 2)

\* r is the float raw/scale.
IsScaled(r, raw, scale) == scale % r.den = 0 /\ r.num * (scale \div r.den) = raw

\* C9: a 29-byte frame decodes field by field from the documented offsets,
\* widths, signedness and scales, each field on its own; the frame of the
\* scenario decodes to the scenario's sample.
C9_DecodeLayout ==
    (dec_out # None) =>
        /\ dec_out # Err
        /\ dec_out.time = [hours |-> dec_in[1], minutes |-> dec_in[2], seconds |-> dec_in[3],
                           microseconds |-> U32(dec_in, 3)]
        /\ IsScaled(dec_out.latitude, S32(dec_in, 7), 1000000)
        /\ IsScaled(dec_out.longitude, S32(dec_in, 11), 1000000)
        /\ dec_out.altitude = S32(dec_in, 15)
        /\ IsScaled(dec_out.temperature, U16(dec_in, 19) - 50, 10)
        /\ IsScaled(dec_out.pressure, U16(dec_in, 21), 10)
        /\ IsScaled(dec_out.acceleration.x, S16(dec_in, 23), 20)
        /\ IsScaled(dec_out.acceleration.y, S16(dec_in, 25), 20)
        /\ IsScaled(dec_out.acceleration.z, S16(dec_in, 27), 20)
        /\ (dec_in = FrameA =>
                dec_out = [time |-> [hours |-> 1, minutes |-> 2, seconds |-> 3,
                                     microseconds |-> 0],
                           latitude |-> [num |-> 40, den |-> 1],
                           longitude |-> [num |-> -96, den |-> 1],
                           altitude |-> 500,
                           temperature |-> [num |-> 10, den |-> 1],
                           pressure |-> [num |-> 1000, den |-> 1],
                           acceleration |-> [x |-> [num |-> 1, den |-> 1],
                                             y |-> [num |-> -1, den |-> 1],
                                             z |-> [num |-> 0, den |-> 1]]])

\* The scenario's frame has been decoded.
C9_Witness == dec_in = FrameA /\ dec_out # None

Last(w) == w[Len(w)]

\* C11: a tick of update_ that succeeds on a line of at least 9 fields has
\* stored the full sample: lat and lon from fields 1 and 2, the acceleration of
\* fields 6, 7, 8 at the end of the x, y, z windows, and field 4 - 278 and
\* field 5 appended to the temperature and pressure windows.
C11_SerialFullSample ==
    \A t \in Threads :
        (variant = "serial" /\ pc[t] = "ret" /\ outcome[t] = "ok"
            /\ Len(lv[t].fields) >= 9)
        => /\ location = [lat |-> FieldFloat(lv[t].fields, 1),
                          lon |-> FieldFloat(lv[t].fields, 2)]
           /\ Last(accel["x"]) = FieldFloat(lv[t].fields, 6)
           /\ Last(accel["y"]) = FieldFloat(lv[t].fields, 7)
           /\ Last(accel["z"]) = FieldFloat(lv[t].fields, 8)
           /\ fed["temp"] # << >>
           /\ Last(fed["temp"]) = RatSub(FieldFloat(lv[t].fields, 4), 278)
           /\ Last(pt_val_graph["temp"]) = Last(fed["temp"])
           /\ fed["press"] # << >>
           /\ Last(fed["press"]) = FieldFloat(lv[t].fields, 5)
           /\ Last(pt_val_graph["press"]) = Last(fed["press"])

\* C12: when the device lookup of main.py returns None the program halts
\* before the server starts: from then on no poll tick is dispatched, no call
\* is made on the link, and packet and the windows keep their initial values.
C12_NoDeviceIsFatal ==
    /\ [](usb_device = "None" =>
            /\ pc[1] = "halted" /\ outcome[1] = "ValueError"
            /\ \A t \in Threads : pc[t] \in {"halted", "off"}
            /\ left = MaxTicks
            /\ \A t \in Threads : lv[t].io = << >> /\ tries[t] = 0 /\ pre[t] = None
            /\ packet = InitPacket
            /\ \A w \in PtWindows \cup AccelWindows :
                    Window(w) = ZeroWindow /\ fed[w] = << >>)
    /\ [][usb_device = "None" => usb_device' = "None"]_vars

\* The lookup has returned None and the module has raised.
C12_Witness ==
    variant = "usb" /\ usb_device = "None" /\ pc[1] = "halted"

\* The exchange of one tick as the claim words it: OUT vendor-interface
\* transfer 100, the delay, IN vendor-interface transfer 200 asking 32 bytes.
Exchange ==
    << [op |-> "ctrl_transfer", args |-> <<65, 100, 1, 0>>],
       [op |-> "sleep", args |-> << >>],
       [op |-> "ctrl_transfer", args |-> <<193, 200, 1, 0, 32>>] >>

\* C13: in every tick of update_data the calls on the link so far are a prefix
\* of arm, delay, read: the read is issued only after the arm and the delay of
\* the same tick, decoding and storing only after the read; a tick whose arm
\* transfer failed ends there with no_update, no read issued, no bytes
\* received, packet and windows as they were when it began.
C13_ArmDelayRead ==
    \A t \in Threads :
        (variant = "usb" /\ pc[t] \notin {"idle", "off"}) =>
            LET io == lv[t].io
            IN  /\ \E n \in 0..3 : io = SubSeq(Exchange, 1, n)
                /\ pc[t] = "arm" => io = << >>
                /\ pc[t] = "read" => io = SubSeq(Exchange, 1, 2)
                /\ pc[t] \in {"decode", "store", "span"} => io = Exchange
                /\ pc[t] = "ret" => Len(io) \in {1, 3}
                /\ (pc[t] = "ret" /\ Len(io) = 1) =>
                        /\ outcome[t] = "no_update"
                        /\ lv[t].buf = << >>
                        /\ Store = pre[t]

\* A tick whose arm transfer failed, after a tick that ran the whole exchange.
C13_Witness ==
    \E t \in Threads :
        /\ variant = "usb" /\ pc[t] = "ret"
        /\ Len(lv[t].io) = 1
        /\ fed["press"] # << >>

\* C14: whatever a consumer callback renders, at any moment of a running poll
\* tick, each window it read holds exactly the window's capacity of entries,
\* never one more.
C14_ReaderSeesAtMostN ==
    /\ view.cb \in {"update_pressure", "update_temperature"}
            => Len(view.seen) = WindowLen
    /\ view.cb \in {"update_accel", "update_data"}
            => \A w \in AccelWindows : Len(view.seen[w]) = WindowLen

\* The threads that are inside the polling callback.
Polling == {t \in Threads : pc[t] \notin {"idle", "off", "boot", "halted"}}

\* C15: at most one invocation of the polling callback is in progress at any
\* time; in particular no two invocations have both armed the receiver with
\* neither read issued yet, and no two stand among the statements that write
\* the store.
C15_SingleWriter ==
    /\ Cardinality(Polling) <= 1
    /\ \A a, b \in Threads :
            (a # b) => ~(pc[a] = "read" /\ pc[b] = "read")
    /\ \A a, b \in Threads :
            (a # b) => ~(pc[a] \in {"decode", "lat", "lon", "store"}
                         /\ pc[b] \in {"decode", "lat", "lon", "store"})

\* The statements of the polling callback that write the store.
Writing(t) == pc[t] \in {"decode", "lat", "lon", "store"}

\* C16: a step in which a consumer callback returns leaves the sample and
\* every window unchanged and issues no call on the link (no invocation's io,
\* attempts or position moves); and any step that changes the sample or a
\* window is a step of an invocation of the polling callback at one of its
\* writing statements.
C16_ConsumersReadOnly ==
    /\ [][(view' # view) =>
            /\ packet' = packet /\ location' = location
            /\ pt_val_graph' = pt_val_graph /\ accel' = accel
            /\ lv' = lv /\ tries' = tries /\ pc' = pc /\ fed' = fed]_vars
    /\ [][(store' # store) =>
            /\ view' = view
            /\ \E t \in Threads : Writing(t) /\ <<pc[t], lv[t]>>' # <<pc[t], lv[t]>>]_vars

\* A consumer has rendered the windows in the middle of a tick's writes, one
\* window already appended to.
C16_Witness ==
    /\ view.cb = "update_accel"
    /\ \E t \in Threads : Writing(t)
    /\ \E w \in AccelWindows : Len(view.seen[w]) > WindowLen

\* The windows the running program has.
Windows == IF variant = "usb" THEN PtWindows \cup AccelWindows ELSE AccelWindows

\* The newest k entries of w, oldest first.
Newest(w, k) == SubSeq(w, Len(w) - k + 1, Len(w))

\* C17: once every invocation of the polling callback has returned, also
\* after two of them overlapped, each window still has its capacity of
\* entries and its newest entries are the values that were appended to it,
\* none missing, in the order or the reverse order of the appends; and all
\* windows have received the same number of appends.
C17_NoLostAppend ==
    Quiet =>
        /\ \A w \in Windows :
                /\ Len(Window(w)) = WindowLen
                /\ Len(fed[w]) <= WindowLen =>
                        \E f \in Permutations(1..Len(fed[w])) :
                            Newest(Window(w), Len(fed[w]))
                                = [i \in 1..Len(fed[w]) |-> fed[w][f[i]]]
        /\ \A v, w \in Windows : Len(fed[v]) = Len(fed[w])

\* C18: in main.py, with no poll tick in progress and at least one tick having
\* stored a sample, the newest entry of each window is the corresponding field
\* of the current packet.
C18_NewestIsPacket ==
    (variant = "usb" /\ Quiet /\ \E w \in Windows : fed[w] # << >>) =>
        /\ Last(pt_val_graph["press"]) = packet.pressure
        /\ Last(pt_val_graph["temp"]) = packet.temperature
        /\ \A w \in AccelWindows : Last(accel[w]) = packet.acceleration[w]

=============================================================================
